---- MODULE Spec2Model ----
(***************************************************************************)
(* A model of the dooropener service (src/app/dooropener.py): the relais   *)
(* inputs (Relais), the virtual relais (VirtualRelais), the life check     *)
(* (LifeCheck) and the configuration of the Dooropener object.             *)
(*                                                                         *)
(* Every Python thread is an execution unit with a program counter; one    *)
(* action is one step of a unit between two points where another unit can  *)
(* observe or change shared state.  Durations (time.sleep, the 1 s poll    *)
(* timeout) are abstracted to steps: a sleeping unit is simply a unit      *)
(* whose next step has not been taken yet.                                 *)
(***************************************************************************)
EXTENDS Integers, Sequences, FiniteSets

\* ------------------------------------------------------------------ bounds

\* trigger() calls that spawn an _action thread
MaxTriggers == 2
\* enable() calls per Relais object (handler threads spawned per relais)
MaxThreads == 2
\* enable() calls on the LifeCheck object (life check threads spawned)
MaxLifeThreads == 1
\* probes performed by the life check
MaxProbes == 7
\* update() calls
MaxUpdates == 2
\* restarts of the program
MaxRestarts == 1
\* honk() calls (_honk threads spawned)
MaxHonks == 3

\* ------------------------------------------------------------ Python values

\* Python values are tagged: None, a str, or a number.  Numbers are held in
\* tenths (0.2 is Num(2), 3 and 3.0 are Num(30)).
None == <<"none">>
Str(s) == <<"str", s>>
Num(n) == <<"num", n>>

\* bool(v) as used by "if self.on_url:" : None and '' are false.
Truthy(v) == v # None /\ v # Str("")

\* The outcome of requests.get(url) followed by the status check of _call:
\* "ok" is status 200, "fail" any other status, "raise" an exception raised
\* by requests.get (connection error, invalid URL, ...).
Outcomes == {"ok", "fail", "raise"}

\* The objects a Dooropener owns.
Relays == {"relais1", "relais2"}
Triggers == Relays \cup {"bellAction"}

VARIABLES
    \* configuration fields of the actors
    on_url, off_url, on_time,      \* Relais / VirtualRelais, by object
    online_url, online_time,       \* LifeCheck
    honk_time,                     \* Bell
    config_file,                   \* content of config.json
    ret,                           \* the last update() call and its result
    boots,                         \* restarts of the program so far
    \* Bell
    bell, bell_on,                 \* self.bell and self.bell_on (signal LED)
    bell_by, bell_on_by,           \* the thread that switched each of them last
    hk_pc,                         \* the _honk threads, in spawn order
    hk_time,                       \* honk_time of each _honk thread
    \* VirtualRelais bellAction
    hot,                           \* self.hot
    ba_pc,                         \* the _action threads, in spawn order
    ba_calls,                      \* calls made by _action threads
    \* Relais relais1, relais2
    run,                           \* self.run, by relais
    led,                           \* self.led, by relais
    button,                        \* self.button.is_pressed, by relais
    rl_pc,                         \* the _handler threads, by relais
    rl_steps,                      \* steps of the current sequence, by thread
    rl_url,                        \* the URL of the latest call of the current
                                   \* sequence (None before it), by thread
    seen,                          \* by relais: the latest activation of the input
                                   \* "began" / "ended" while a sequence that is
                                   \* the latest to start was in progress, or "none"
    \* LifeCheck
    lc_run,                        \* self.run
    running, wlan_ok,              \* the two LEDs
    offline_counter,               \* self.offline_counter
    lc_pc,                         \* the _life_check threads
    probes,                        \* number of probes performed
    last_probe,                    \* outcome of the latest probe
    failed_run,                    \* failed probes since the latest that did not fail
    reboots,                       \* 'sudo reboot' commands issued
    ctl                            \* position of the thread calling disable()/stop()

cfgVars == <<on_url, off_url, on_time, online_url, online_time, honk_time,
             config_file, ret, boots>>
bellVars == <<bell, bell_on, bell_by, bell_on_by, hk_pc, hk_time>>
vrVars == <<hot, ba_pc, ba_calls>>
relVars == <<run, led, button, rl_pc, rl_steps, rl_url, seen>>
lcVars == <<lc_run, running, wlan_ok, offline_counter, lc_pc, probes, last_probe, failed_run, reboots>>
vars == <<cfgVars, bellVars, vrVars, relVars, lcVars, ctl>>

\* ------------------------------------------------------------ configuration

\* The keys of Dooropener.config().
UrlKeys == {"r1_on_url", "r1_off_url", "r2_on_url", "r2_off_url",
            "online_url", "ba_on_url", "ba_off_url"}
TimeKeys == {"r1_time", "r2_time", "online_time", "bell_time", "ba_time"}
Keys == UrlKeys \cup TimeKeys

\* Python ints are tagged apart from floats: the constructor defaults are
\* ints, float() yields floats.
PyInt(n) == <<"int", n>>

\* The attribute values of a freshly constructed Dooropener, before
\* _load_settings: LifeCheck(), Relais(.., on_time=3), Relais(.., on_time=60),
\* Bell(), VirtualRelais(.., on_time=1).
DefaultFields ==
    [on_url |-> [x \in Triggers |-> None],
     off_url |-> [x \in Triggers |-> None],
     on_time |-> [x \in Triggers |->
                    CASE x = "relais1" -> PyInt(30)
                      [] x = "relais2" -> PyInt(600)
                      [] x = "bellAction" -> PyInt(10)],
     online_url |-> Str("https://google.de"),
     online_time |-> PyInt(600),
     honk_time |-> Num(2)]

\* The attribute values of the running Dooropener.
Fields ==
    [on_url |-> on_url, off_url |-> off_url, on_time |-> on_time,
     online_url |-> online_url, online_time |-> online_time,
     honk_time |-> honk_time]

\* (A config() whose r2_time entry reads relais1.)
Config_R2FromR1(f) ==
    [k \in Keys |->
        CASE k = "r1_on_url" -> f.on_url["relais1"]
          [] k = "r1_off_url" -> f.off_url["relais1"]
          [] k = "r1_time" -> f.on_time["relais1"]
          [] k = "r2_on_url" -> f.on_url["relais2"]
          [] k = "r2_off_url" -> f.off_url["relais2"]
          [] k = "r2_time" -> f.on_time["relais1"]
          [] k = "online_url" -> f.online_url
          [] k = "online_time" -> f.online_time
          [] k = "bell_time" -> f.honk_time
          [] k = "ba_on_url" -> f.on_url["bellAction"]
          [] k = "ba_off_url" -> f.off_url["bellAction"]
          [] k = "ba_time" -> f.on_time["bellAction"]]

\* Dooropener.config() on the attribute values f.
Config(f) ==
    [k \in Keys |->
        CASE k = "r1_on_url" -> f.on_url["relais1"]
          [] k = "r1_off_url" -> f.off_url["relais1"]
          [] k = "r1_time" -> f.on_time["relais1"]
          [] k = "r2_on_url" -> f.on_url["relais2"]
          [] k = "r2_off_url" -> f.off_url["relais2"]
          [] k = "r2_time" -> f.on_time["relais2"]
          [] k = "online_url" -> f.online_url
          [] k = "online_time" -> f.online_time
          [] k = "bell_time" -> f.honk_time
          [] k = "ba_on_url" -> f.on_url["bellAction"]
          [] k = "ba_off_url" -> f.off_url["bellAction"]
          [] k = "ba_time" -> f.on_time["bellAction"]]

\* The strings float() accepts, among the strings of the model, with their
\* values in tenths.
FloatLiterals == {"3", "3.0", "0.2", "60", "60.0", "1", "1.0"}
FloatValue(s) ==
    CASE s = "3" -> 30
      [] s = "3.0" -> 30
      [] s = "0.2" -> 2
      [] s = "60" -> 600
      [] s = "60.0" -> 600
      [] s = "1" -> 10
      [] s = "1.0" -> 10

\* str(v) for the values of the model.
PyStr(v) ==
    CASE v[1] = "str" -> v
      [] v = PyInt(30) -> Str("3")
      [] v = PyInt(600) -> Str("60")
      [] v = PyInt(10) -> Str("1")
      [] v = Num(30) -> Str("3.0")
      [] v = Num(600) -> Str("60.0")
      [] v = Num(2) -> Str("0.2")
      [] v = Num(10) -> Str("1.0")

ParseError == <<"error">>

\* (A float() that falls back to 0.0 for what it cannot parse.)
ParseFloat_Default(v) ==
    IF v[1] = "str" /\ v[2] \in FloatLiterals
      THEN Num(FloatValue(v[2]))
      ELSE Num(0)

\* float(v): a float, or the exception it raises (ValueError for a string
\* that is no number, TypeError for None).
ParseFloat(v) ==
    IF v[1] = "str" /\ v[2] \in FloatLiterals
      THEN Num(FloatValue(v[2]))
      ELSE ParseError

\* (An update() whose final else accepts the key.)
UnknownKeyAccepted == TRUE

\* The result of update() for a key none of the if/elif branches names.
UnknownKeyResult == FALSE

\* update(), the body of the try block up to "if success": the attribute
\* values after it, whether success is True, and whether an exception left
\* the block (float() raised).
UpdateField(f, key, value) ==
    LET v == IF value # None THEN PyStr(value) ELSE None
        p == ParseFloat(v)
        Time(g) == IF p = ParseError
                     THEN [f |-> f, success |-> FALSE, exception |-> TRUE]
                     ELSE [f |-> g, success |-> TRUE, exception |-> FALSE]
        Url(g) == [f |-> g, success |-> TRUE, exception |-> FALSE]
    IN  CASE key = "r1_on_url" -> Url([f EXCEPT !.on_url["relais1"] = v])
          [] key = "r1_off_url" -> Url([f EXCEPT !.off_url["relais1"] = v])
          [] key = "r1_time" -> Time([f EXCEPT !.on_time["relais1"] = p])
          [] key = "r2_on_url" -> Url([f EXCEPT !.on_url["relais2"] = v])
          [] key = "r2_off_url" -> Url([f EXCEPT !.off_url["relais2"] = v])
          [] key = "r2_time" -> Time([f EXCEPT !.on_time["relais2"] = p])
          [] key = "online_url" -> Url([f EXCEPT !.online_url = v])
          [] key = "online_time" -> Time([f EXCEPT !.online_time = p])
          [] key = "bell_time" -> Time([f EXCEPT !.honk_time = p])
          [] key = "ba_on_url" -> Url([f EXCEPT !.on_url["bellAction"] = v])
          [] key = "ba_off_url" -> Url([f EXCEPT !.off_url["bellAction"] = v])
          [] key = "ba_time" -> Time([f EXCEPT !.on_time["bellAction"] = p])
          [] OTHER -> [f |-> f, success |-> UnknownKeyResult, exception |-> FALSE]

\* config.json: absent, empty (truncated by open(.., 'w') and never
\* written), or the JSON document of a config() snapshot.  data is only
\* meaningful for kind "json".
NoData == [k \in Keys |-> None]
NoFile == [kind |-> "absent", data |-> NoData]
EmptyFile == [kind |-> "empty", data |-> NoData]
JsonFile(doc) == [kind |-> "json", data |-> doc]

\* What can happen in _save_settings: the write succeeds, open() raises
\* (the file is left as it was), or write() raises after open() truncated
\* the file.
SaveOutcomes == {"ok", "open_fail", "write_fail"}

\* _save_settings: config.json after it.  Its except clause catches every
\* exception, so nothing reaches the caller.
SaveSettings(s, f, file) ==
    CASE s = "ok" -> JsonFile(Config(f))
      [] s = "open_fail" -> file
      [] s = "write_fail" -> EmptyFile

\* "except Exception as e:" of update() catches whatever the try block
\* raises.  (Its logging.error call, like the one of _save_settings, passes
\* the exception as a stray format argument; logging reports that on stderr
\* and returns.)
ExceptCatches == TRUE

\* update() returns success as computed by the if/elif chain when no
\* exception left the try block, and False from the except clause.
UpdateResult(r) == IF r.exception THEN FALSE ELSE r.success

\* The keys and values update() is called with.
InputKeys == Keys \cup {"r3_time"}
InputValues == {None, Str(""), Str("3"), Str("0.2"), Str("http://a")}

SetFields(f) ==
    /\ on_url' = f.on_url
    /\ off_url' = f.off_url
    /\ on_time' = f.on_time
    /\ online_url' = f.online_url
    /\ online_time' = f.online_time
    /\ honk_time' = f.honk_time

\* Dooropener.update(key, value), called from the web API, as one step:
\* ret records the call, what it returned (result) and whether an exception
\* reached the caller (raised).
Update(key, value, s) ==
    LET r == UpdateField(Fields, key, value) IN
    /\ ret.n < MaxUpdates
    /\ SetFields(r.f)
    /\ config_file' = IF ~r.exception /\ r.success
                        THEN SaveSettings(s, r.f, config_file)
                        ELSE config_file
    /\ ret' = [n |-> ret.n + 1, key |-> key, value |-> value,
               result |-> UpdateResult(r),
               raised |-> (r.exception /\ ~ExceptCatches)]
    /\ UNCHANGED <<boots, bellVars, vrVars, relVars, lcVars, ctl>>

\* _load_settings on a JSON document: update() for every key of it.
RECURSIVE LoadKeys(_, _, _)
LoadKeys(f, doc, ks) ==
    IF ks = {} THEN f
    ELSE LET k == CHOOSE x \in ks : TRUE
         IN  LoadKeys(UpdateField(f, k, doc[k]).f, doc, ks \ {k})

\* The attribute values after Dooropener.__init__ with config.json as given:
\* a missing or unreadable file leaves the defaults.
LoadSettings(file) ==
    IF file.kind = "json"
      THEN LoadKeys(DefaultFields, file.data, Keys)
      ELSE DefaultFields

\* The state of the configuration after Dooropener.__init__: every update()
\* of _load_settings saved the snapshot again.
InitConfig(file) ==
    /\ on_url = LoadSettings(file).on_url
    /\ off_url = LoadSettings(file).off_url
    /\ on_time = LoadSettings(file).on_time
    /\ online_url = LoadSettings(file).online_url
    /\ online_time = LoadSettings(file).online_time
    /\ honk_time = LoadSettings(file).honk_time
    /\ config_file = IF file.kind = "json"
                       THEN JsonFile(Config(LoadSettings(file)))
                       ELSE file
    /\ ret = [n |-> 0, key |-> "", value |-> None, result |-> FALSE,
              raised |-> FALSE]
    /\ boots = 0

ConfigNext ==
    \E key \in InputKeys, value \in InputValues, s \in SaveOutcomes :
        Update(key, value, s)

\* --------------------------------------------------------------------- Bell

\* The times honk() is called with: none (Dooropener.honk() of main_loop,
\* /api/action/honk), or float(time) of /api/action/honk/<time>, which is
\* any float the path segment spells, a negative one included.
HonkTimes == {None, Num(1), Num(-10)}

\* Bell.honk: start a _honk thread with the given time.
Honk(time) ==
    /\ Len(hk_pc) < MaxHonks
    /\ hk_pc' = Append(hk_pc, "default")
    /\ hk_time' = Append(hk_time, time)
    /\ UNCHANGED <<bell, bell_on, bell_by, bell_on_by,
                   cfgVars, vrVars, relVars, lcVars, ctl>>

\* _honk, "if not honk_time: honk_time = self.honk_time".
HonkDefault(t) ==
    /\ hk_pc[t] = "default"
    /\ hk_time' = [hk_time EXCEPT ![t] =
                     IF hk_time[t] = None \/ hk_time[t] = Num(0)
                       THEN honk_time ELSE hk_time[t]]
    /\ hk_pc' = [hk_pc EXCEPT ![t] = "bell_on"]
    /\ UNCHANGED <<bell, bell_on, bell_by, bell_on_by,
                   cfgVars, vrVars, relVars, lcVars, ctl>>

\* _on, "self.bell.on()".
HonkBellOn(t) ==
    /\ hk_pc[t] = "bell_on"
    /\ bell' = TRUE
    /\ bell_by' = t
    /\ hk_pc' = [hk_pc EXCEPT ![t] = "signal_on"]
    /\ UNCHANGED <<bell_on, bell_on_by, hk_time,
                   cfgVars, vrVars, relVars, lcVars, ctl>>

\* _on, "self.bell_on.on()".
HonkSignalOn(t) ==
    /\ hk_pc[t] = "signal_on"
    /\ bell_on' = TRUE
    /\ bell_on_by' = t
    /\ hk_pc' = [hk_pc EXCEPT ![t] = "sleep"]
    /\ UNCHANGED <<bell, bell_by, hk_time,
                   cfgVars, vrVars, relVars, lcVars, ctl>>

\* _honk, "time.sleep(honk_time)": time.sleep raises ValueError for a
\* negative length, which nothing catches, so the thread ends there.
HonkSleep(t) ==
    /\ hk_pc[t] = "sleep"
    /\ hk_pc' = [hk_pc EXCEPT ![t] = IF hk_time[t][2] < 0 THEN "crashed"
                                     ELSE "bell_off"]
    /\ UNCHANGED <<bell, bell_on, bell_by, bell_on_by, hk_time,
                   cfgVars, vrVars, relVars, lcVars, ctl>>

\* _off, "self.bell.off()".
HonkBellOff(t) ==
    /\ hk_pc[t] = "bell_off"
    /\ bell' = FALSE
    /\ bell_by' = t
    /\ hk_pc' = [hk_pc EXCEPT ![t] = "signal_off"]
    /\ UNCHANGED <<bell_on, bell_on_by, hk_time,
                   cfgVars, vrVars, relVars, lcVars, ctl>>

\* (An _off that leaves the signal LED as it is.)
HonkSignalOff_Missing(t) ==
    /\ hk_pc[t] = "signal_off"
    /\ hk_pc' = [hk_pc EXCEPT ![t] = "done"]
    /\ UNCHANGED <<bell, bell_by, bell_on, bell_on_by, hk_time,
                   cfgVars, vrVars, relVars, lcVars, ctl>>

\* _off, "self.bell_on.off()", and the end of _honk.
HonkSignalOff(t) ==
    /\ hk_pc[t] = "signal_off"
    /\ bell_on' = FALSE
    /\ bell_on_by' = t
    /\ hk_pc' = [hk_pc EXCEPT ![t] = "done"]
    /\ UNCHANGED <<bell, bell_by, hk_time,
                   cfgVars, vrVars, relVars, lcVars, ctl>>

HonkStep(t) ==
    \/ HonkDefault(t)
    \/ HonkBellOn(t)
    \/ HonkSignalOn(t)
    \/ HonkSleep(t)
    \/ HonkBellOff(t)
    \/ HonkSignalOff(t)

BellNext ==
    \/ \E time \in HonkTimes : Honk(time)
    \/ \E t \in DOMAIN hk_pc : HonkStep(t)

\* ------------------------------------------------------------ VirtualRelais

\* VirtualRelais.trigger: the hot check, then the thread start.  The new
\* thread has not run yet: self.hot is set by the thread itself.
SpawnAction == ba_pc' = Append(ba_pc, "set_hot")

IgnoreWhileHot == hot

Trigger ==
    /\ Len(ba_pc) < MaxTriggers
    /\ IF IgnoreWhileHot
         THEN UNCHANGED ba_pc
         ELSE SpawnAction
    /\ UNCHANGED <<hot, ba_calls, cfgVars, bellVars, relVars, lcVars, ctl>>

\* _action, "self.hot = True".
ActionSetHot(t) ==
    /\ ba_pc[t] = "set_hot"
    /\ hot' = TRUE
    /\ ba_pc' = [ba_pc EXCEPT ![t] = "on_call"]
    /\ UNCHANGED <<ba_calls, cfgVars, bellVars, relVars, lcVars, ctl>>

\* _action, the on call: "if self.on_url: self._call(self.on_url)".  An
\* exception raised by requests.get leaves _action and ends the thread.
ActionOnCall(t) ==
    /\ ba_pc[t] = "on_call"
    /\ IF Truthy(on_url["bellAction"])
         THEN \E o \in Outcomes :
                /\ ba_calls' = Append(ba_calls,
                       [thread |-> t, kind |-> "on",
                        url |-> on_url["bellAction"], outcome |-> o])
                /\ ba_pc' = [ba_pc EXCEPT
                                ![t] = IF o = "raise" THEN "crashed" ELSE "sleep"]
         ELSE /\ ba_pc' = [ba_pc EXCEPT ![t] = "sleep"]
              /\ UNCHANGED ba_calls
    /\ UNCHANGED <<hot, cfgVars, bellVars, relVars, lcVars, ctl>>

\* _action, "time.sleep(self.on_time)" returns.
ActionSleep(t) ==
    /\ ba_pc[t] = "sleep"
    /\ ba_pc' = [ba_pc EXCEPT ![t] = "clear_hot"]
    /\ UNCHANGED <<hot, ba_calls, cfgVars, bellVars, relVars, lcVars, ctl>>

\* _action, "self.hot = False".
ActionClearHot(t) ==
    /\ ba_pc[t] = "clear_hot"
    /\ hot' = FALSE
    /\ ba_pc' = [ba_pc EXCEPT ![t] = "off_call"]
    /\ UNCHANGED <<ba_calls, cfgVars, bellVars, relVars, lcVars, ctl>>

\* _action, the off call and the end of the thread.
ActionOffCall(t) ==
    /\ ba_pc[t] = "off_call"
    /\ IF Truthy(off_url["bellAction"])
         THEN \E o \in Outcomes :
                /\ ba_calls' = Append(ba_calls,
                       [thread |-> t, kind |-> "off",
                        url |-> off_url["bellAction"], outcome |-> o])
                /\ ba_pc' = [ba_pc EXCEPT
                                ![t] = IF o = "raise" THEN "crashed" ELSE "done"]
         ELSE /\ ba_pc' = [ba_pc EXCEPT ![t] = "done"]
              /\ UNCHANGED ba_calls
    /\ UNCHANGED <<hot, cfgVars, bellVars, relVars, lcVars, ctl>>

VirtualNext ==
    \/ Trigger
    \/ \E t \in DOMAIN ba_pc :
         \/ ActionSetHot(t)
         \/ ActionOnCall(t)
         \/ ActionSleep(t)
         \/ ActionClearHot(t)
         \/ ActionOffCall(t)

\* ------------------------------------------------------------------- Relais

\* (The order the specification text gives: the LED first.)
ButtonPressedOrder_LedFirst ==
    <<"led_on", "on_call", "sleep", "off_call", "led_off">>

\* The statements of Relais._button_pressed in program order: the on call,
\* self.led.on(), time.sleep(self.on_time), the off call, self.led.off().
ButtonPressedOrder == <<"on_call", "led_on", "sleep", "off_call", "led_off">>

StepIndex(step) == CHOOSE i \in DOMAIN ButtonPressedOrder :
                       ButtonPressedOrder[i] = step

\* Where a handler thread is after a step of _button_pressed: at the next
\* statement, or back in the while loop of _handler.
AfterStep(step) ==
    IF StepIndex(step) < Len(ButtonPressedOrder)
      THEN ButtonPressedOrder[StepIndex(step) + 1]
      ELSE "loop"

SequenceSteps == {ButtonPressedOrder[i] : i \in DOMAIN ButtonPressedOrder}

\* Thread t of relais r moves to pc, with the step it performed (if any)
\* added to the steps of its current sequence.
Goto(r, t, pc) == rl_pc' = [rl_pc EXCEPT ![r][t] = pc]
Logged(r, t, step) == rl_steps' = [rl_steps EXCEPT ![r][t] = Append(@, step)]

\* (An enable that sets self.run again.)
Enable_SetsRun(r) ==
    /\ ctl = "idle"
    /\ Len(rl_pc[r]) < MaxThreads
    /\ run' = [run EXCEPT ![r] = TRUE]
    /\ rl_pc' = [rl_pc EXCEPT ![r] = Append(@, "loop")]
    /\ rl_steps' = [rl_steps EXCEPT ![r] = Append(@, <<>>)]
    /\ rl_url' = [rl_url EXCEPT ![r] = Append(@, None)]
    /\ UNCHANGED <<led, button, seen, cfgVars, bellVars, vrVars, lcVars, ctl>>

\* Relais.enable: start a _handler thread.  self.run is not set here.
Enable(r) ==
    /\ ctl = "idle"
    /\ Len(rl_pc[r]) < MaxThreads
    /\ rl_pc' = [rl_pc EXCEPT ![r] = Append(@, "loop")]
    /\ rl_steps' = [rl_steps EXCEPT ![r] = Append(@, <<>>)]
    /\ rl_url' = [rl_url EXCEPT ![r] = Append(@, None)]
    /\ UNCHANGED <<run, led, button, seen, cfgVars, bellVars, vrVars, lcVars, ctl>>

\* Relais.disable.
Disable(r) ==
    /\ ctl = "idle"
    /\ run' = [run EXCEPT ![r] = FALSE]
    /\ UNCHANGED <<led, button, rl_pc, rl_steps, rl_url, seen, cfgVars, bellVars, vrVars, lcVars, ctl>>

\* Some handler thread of relais r is in _button_pressed.
InSequence(r) == \E t \in DOMAIN rl_pc[r] : rl_pc[r][t] \in SequenceSteps

\* The input pin goes active / inactive.
Press(r) ==
    /\ ~button[r]
    /\ button' = [button EXCEPT ![r] = TRUE]
    /\ seen' = [seen EXCEPT ![r] = IF InSequence(r) THEN "began" ELSE "none"]
    /\ UNCHANGED <<run, led, rl_pc, rl_steps, rl_url, cfgVars, bellVars, vrVars, lcVars, ctl>>

Release(r) ==
    /\ button[r]
    /\ button' = [button EXCEPT ![r] = FALSE]
    /\ seen' = [seen EXCEPT ![r] = IF @ = "began" /\ InSequence(r)
                                     THEN "ended" ELSE "none"]
    /\ UNCHANGED <<run, led, rl_pc, rl_steps, rl_url, cfgVars, bellVars, vrVars, lcVars, ctl>>

\* _handler, "while self.run:".
HandlerLoop(r, t) ==
    /\ rl_pc[r][t] = "loop"
    /\ Goto(r, t, IF run[r] THEN "wait" ELSE "stopped")
    /\ UNCHANGED <<run, led, button, rl_steps, rl_url, seen, cfgVars, bellVars, vrVars, lcVars, ctl>>

\* (A wait that also returns True for an activation that came and went
\* while the thread was busy.)
HandlerWait_Latched(r, t) ==
    /\ rl_pc[r][t] = "wait"
    /\ IF button[r] \/ seen[r] = "ended"
         THEN /\ Goto(r, t, ButtonPressedOrder[1])
              /\ rl_steps' = [rl_steps EXCEPT ![r][t] = <<>>]
              /\ rl_url' = [rl_url EXCEPT ![r][t] = None]
              /\ seen' = [seen EXCEPT ![r] = "none"]
         ELSE /\ Goto(r, t, "loop")
              /\ UNCHANGED <<rl_steps, rl_url, seen>>
    /\ UNCHANGED <<run, led, button, cfgVars, bellVars, vrVars, lcVars, ctl>>

\* _handler, "if self.button.wait_for_press(1):" returns: True as soon as
\* the input is active, False after the timeout.
HandlerWait(r, t) ==
    /\ rl_pc[r][t] = "wait"
    /\ IF button[r]
         THEN /\ Goto(r, t, ButtonPressedOrder[1])
              /\ rl_steps' = [rl_steps EXCEPT ![r][t] = <<>>]
              /\ rl_url' = [rl_url EXCEPT ![r][t] = None]
              /\ seen' = [seen EXCEPT ![r] = "none"]
         ELSE /\ Goto(r, t, "loop")
              /\ UNCHANGED <<rl_steps, rl_url, seen>>
    /\ UNCHANGED <<run, led, button, cfgVars, bellVars, vrVars, lcVars, ctl>>

\* (A _button_pressed whose off call is a copy of the on call, URL included.)
ButtonCall_OnUrlTwice(r, t, kind) ==
    /\ rl_pc[r][t] = kind
    /\ LET url == on_url[r] IN
       IF Truthy(url)
         THEN \E o \in Outcomes :
                /\ Goto(r, t, IF o = "raise" THEN "crashed" ELSE AfterStep(kind))
                /\ Logged(r, t, kind)
                /\ rl_url' = [rl_url EXCEPT ![r][t] = url]
         ELSE /\ Goto(r, t, AfterStep(kind))
              /\ UNCHANGED <<rl_steps, rl_url>>
    /\ UNCHANGED <<run, led, button, seen, cfgVars, bellVars, vrVars, lcVars, ctl>>

\* _button_pressed, "if self.on_url: self._call(self.on_url)" (kind "on")
\* and the same for off_url.  An exception raised by requests.get leaves
\* _button_pressed and _handler: the thread ends.
ButtonCall(r, t, kind) ==
    /\ rl_pc[r][t] = kind
    /\ LET url == IF kind = "on_call" THEN on_url[r] ELSE off_url[r] IN
       IF Truthy(url)
         THEN \E o \in Outcomes :
                /\ Goto(r, t, IF o = "raise" THEN "crashed" ELSE AfterStep(kind))
                /\ Logged(r, t, kind)
                /\ rl_url' = [rl_url EXCEPT ![r][t] = url]
         ELSE /\ Goto(r, t, AfterStep(kind))
              /\ UNCHANGED <<rl_steps, rl_url>>
    /\ UNCHANGED <<run, led, button, seen, cfgVars, bellVars, vrVars, lcVars, ctl>>

\* _button_pressed, "self.led.on()".
ButtonLedOn(r, t) ==
    /\ rl_pc[r][t] = "led_on"
    /\ led' = [led EXCEPT ![r] = TRUE]
    /\ Goto(r, t, AfterStep("led_on"))
    /\ Logged(r, t, "led_on")
    /\ UNCHANGED <<run, button, rl_url, seen, cfgVars, bellVars, vrVars, lcVars, ctl>>

\* _button_pressed, "time.sleep(self.on_time)" returns.
ButtonSleep(r, t) ==
    /\ rl_pc[r][t] = "sleep"
    /\ Goto(r, t, AfterStep("sleep"))
    /\ Logged(r, t, "sleep")
    /\ UNCHANGED <<run, led, button, rl_url, seen, cfgVars, bellVars, vrVars, lcVars, ctl>>

\* _button_pressed, "self.led.off()".
ButtonLedOff(r, t) ==
    /\ rl_pc[r][t] = "led_off"
    /\ led' = [led EXCEPT ![r] = FALSE]
    /\ Goto(r, t, AfterStep("led_off"))
    /\ Logged(r, t, "led_off")
    /\ UNCHANGED <<run, button, rl_url, seen, cfgVars, bellVars, vrVars, lcVars, ctl>>

HandlerStep(r, t) ==
    \/ HandlerLoop(r, t)
    \/ HandlerWait(r, t)
    \/ ButtonCall(r, t, "on_call")
    \/ ButtonLedOn(r, t)
    \/ ButtonSleep(r, t)
    \/ ButtonCall(r, t, "off_call")
    \/ ButtonLedOff(r, t)

\* ---------------------------------------------------------------- LifeCheck

\* "if self.offline_counter > 5:"
RebootThreshold == 5

\* self.offline_counter after a probe with outcome o (_online_check): only
\* the else branch of the status check writes it.
CounterAfter(c, o) == IF o = "fail" THEN c + 1 ELSE c

\* LifeCheck.enable: start a _life_check thread.
LifeEnable ==
    /\ ctl = "idle"
    /\ Len(lc_pc) < MaxLifeThreads
    /\ lc_pc' = Append(lc_pc, "loop")
    /\ UNCHANGED <<lc_run, running, wlan_ok, offline_counter, probes, last_probe, failed_run, reboots,
                   cfgVars, bellVars, vrVars, relVars, ctl>>

\* LifeCheck.disable, "self.run = False".
LifeDisable ==
    /\ ctl = "idle"
    /\ lc_run' = FALSE
    /\ ctl' = "lc_disable"
    /\ UNCHANGED <<running, wlan_ok, offline_counter, lc_pc, probes, last_probe, failed_run, reboots,
                   cfgVars, bellVars, vrVars, relVars>>

\* LifeCheck.disable, "self.running.off()" and the return.
LifeDisableLed ==
    /\ ctl = "lc_disable"
    /\ running' = FALSE
    /\ ctl' = "idle"
    /\ UNCHANGED <<lc_run, wlan_ok, offline_counter, lc_pc, probes, last_probe, failed_run, reboots,
                   cfgVars, bellVars, vrVars, relVars>>

\* _life_check, "while self.run:".
LifeCheckLoop(t) ==
    /\ lc_pc[t] = "loop"
    /\ lc_pc' = [lc_pc EXCEPT ![t] = IF lc_run THEN "running_on" ELSE "stopped"]
    /\ UNCHANGED <<lc_run, running, wlan_ok, offline_counter, probes, last_probe, failed_run, reboots,
                   cfgVars, bellVars, vrVars, relVars, ctl>>

\* _life_check, "self.running.on()".
LifeCheckRunningOn(t) ==
    /\ lc_pc[t] = "running_on"
    /\ running' = TRUE
    /\ lc_pc' = [lc_pc EXCEPT ![t] = "check"]
    /\ UNCHANGED <<lc_run, wlan_ok, offline_counter, probes, last_probe, failed_run, reboots,
                   cfgVars, bellVars, vrVars, relVars, ctl>>

\* (A life check that counts an iteration without URL as a failure.)
OnlineCheck_CountsNoUrl(t) ==
    /\ lc_pc[t] = "check"
    /\ IF Truthy(online_url)
         THEN /\ probes < MaxProbes
              /\ \E o \in Outcomes :
                   /\ probes' = probes + 1
                   /\ last_probe' = o
                   /\ failed_run' = IF o = "ok" THEN 0 ELSE failed_run + 1
                   /\ IF o = "raise"
                        THEN /\ lc_pc' = [lc_pc EXCEPT ![t] = "crashed"]
                             /\ UNCHANGED <<wlan_ok, offline_counter, reboots>>
                        ELSE /\ lc_pc' = [lc_pc EXCEPT ![t] = "sleep"]
                             /\ wlan_ok' = (o = "ok")
                             /\ offline_counter' = CounterAfter(offline_counter, o)
                             /\ reboots' =
                                  IF CounterAfter(offline_counter, o) > RebootThreshold
                                    THEN reboots + 1
                                    ELSE reboots
         ELSE /\ wlan_ok' = FALSE
              /\ offline_counter' = offline_counter + 1
              /\ lc_pc' = [lc_pc EXCEPT ![t] = "sleep"]
              /\ UNCHANGED <<probes, last_probe, failed_run, reboots>>
    /\ UNCHANGED <<lc_run, running, cfgVars, bellVars, vrVars, relVars, ctl>>

\* _life_check, "if self.online_url: self._online_check() else: ...".
\* _online_check: the probe, the status check, and the reboot when the
\* counter is over the threshold.  An exception raised by requests.get
\* leaves _online_check and _life_check: the thread ends.
OnlineCheck(t) ==
    /\ lc_pc[t] = "check"
    /\ IF Truthy(online_url)
         THEN /\ probes < MaxProbes
              /\ \E o \in Outcomes :
                   /\ probes' = probes + 1
                   /\ last_probe' = o
                   /\ failed_run' = IF o = "ok" THEN 0 ELSE failed_run + 1
                   /\ IF o = "raise"
                        THEN /\ lc_pc' = [lc_pc EXCEPT ![t] = "crashed"]
                             /\ UNCHANGED <<wlan_ok, offline_counter, reboots>>
                        ELSE /\ lc_pc' = [lc_pc EXCEPT ![t] = "sleep"]
                             /\ wlan_ok' = (o = "ok")
                             /\ offline_counter' = CounterAfter(offline_counter, o)
                             /\ reboots' =
                                  IF CounterAfter(offline_counter, o) > RebootThreshold
                                    THEN reboots + 1
                                    ELSE reboots
         ELSE /\ wlan_ok' = FALSE
              /\ lc_pc' = [lc_pc EXCEPT ![t] = "sleep"]
              /\ UNCHANGED <<offline_counter, probes, last_probe, failed_run, reboots>>
    /\ UNCHANGED <<lc_run, running, cfgVars, bellVars, vrVars, relVars, ctl>>

\* _life_check, "time.sleep(self.online_time)" returns.
LifeCheckSleep(t) ==
    /\ lc_pc[t] = "sleep"
    /\ lc_pc' = [lc_pc EXCEPT ![t] = "blink"]
    /\ UNCHANGED <<lc_run, running, wlan_ok, offline_counter, probes, last_probe, failed_run, reboots,
                   cfgVars, bellVars, vrVars, relVars, ctl>>

\* _life_check, the off blink: both LEDs off, time.sleep(.5).
LifeCheckBlink(t) ==
    /\ lc_pc[t] = "blink"
    /\ wlan_ok' = FALSE
    /\ running' = FALSE
    /\ lc_pc' = [lc_pc EXCEPT ![t] = "loop"]
    /\ UNCHANGED <<lc_run, offline_counter, probes, last_probe, failed_run, reboots,
                   cfgVars, bellVars, vrVars, relVars, ctl>>

LifeCheckStep(t) ==
    \/ LifeCheckLoop(t)
    \/ LifeCheckRunningOn(t)
    \/ OnlineCheck(t)
    \/ LifeCheckSleep(t)
    \/ LifeCheckBlink(t)

\* --------------------------------------------------------------- Dooropener

\* Dooropener.start: enable the life check and both relais.
Start ==
    /\ ctl = "idle"
    /\ Len(lc_pc) < MaxLifeThreads
    /\ \A r \in Relays : Len(rl_pc[r]) < MaxThreads
    /\ lc_pc' = Append(lc_pc, "loop")
    /\ rl_pc' = [r \in Relays |-> Append(rl_pc[r], "loop")]
    /\ rl_steps' = [r \in Relays |-> Append(rl_steps[r], <<>>)]
    /\ rl_url' = [r \in Relays |-> Append(rl_url[r], None)]
    /\ UNCHANGED <<run, led, button, seen, lc_run, running, wlan_ok, offline_counter,
                   probes, last_probe, failed_run, reboots, cfgVars, bellVars, vrVars, ctl>>

\* Dooropener.stop, the first statement of self.life_check.disable().
Stop ==
    /\ ctl = "idle"
    /\ lc_run' = FALSE
    /\ ctl' = "stop"
    /\ UNCHANGED <<running, wlan_ok, offline_counter, lc_pc, probes, last_probe, failed_run, reboots,
                   cfgVars, bellVars, vrVars, relVars>>

\* Dooropener.stop, the rest: self.running.off() of life_check.disable(),
\* then relais1.disable() and relais2.disable().
StopRest ==
    /\ ctl = "stop"
    /\ running' = FALSE
    /\ run' = [r \in Relays |-> FALSE]
    /\ ctl' = "idle"
    /\ UNCHANGED <<led, button, rl_pc, rl_steps, rl_url, seen, lc_run, wlan_ok,
                   offline_counter, lc_pc, probes, last_probe, failed_run, reboots, cfgVars, bellVars, vrVars>>

\* The program is stopped and started again: main_loop constructs a new
\* Dooropener, whose __init__ makes new actors and then runs _load_settings
\* on config.json as the last process left it.  No thread exists until
\* start() is called on the new object.  s is the outcome of the last
\* _save_settings made by the update() calls of _load_settings.
Restart(s) ==
    /\ boots < MaxRestarts
    /\ boots' = boots + 1
    /\ SetFields(LoadSettings(config_file))
    /\ config_file' = IF config_file.kind = "json"
                        THEN SaveSettings(s, LoadSettings(config_file), config_file)
                        ELSE config_file
    /\ bell' = FALSE
    /\ bell_on' = FALSE
    /\ bell_by' = 0
    /\ bell_on_by' = 0
    /\ hk_pc' = <<>>
    /\ hk_time' = <<>>
    /\ hot' = FALSE
    /\ ba_pc' = <<>>
    /\ ba_calls' = <<>>
    /\ run' = [r \in Relays |-> TRUE]
    /\ led' = [r \in Relays |-> FALSE]
    /\ rl_pc' = [r \in Relays |-> <<>>]
    /\ rl_steps' = [r \in Relays |-> <<>>]
    /\ rl_url' = [r \in Relays |-> <<>>]
    /\ seen' = [r \in Relays |-> "none"]
    /\ lc_run' = TRUE
    /\ running' = FALSE
    /\ wlan_ok' = FALSE
    /\ offline_counter' = 0
    /\ lc_pc' = <<>>
    /\ probes' = 0
    /\ last_probe' = "none"
    /\ failed_run' = 0
    /\ reboots' = 0
    /\ ctl' = "idle"
    /\ UNCHANGED <<ret, button>>

\* ----------------------------------------------------------- specifications

\* The actors after Dooropener.__init__: no thread started, LEDs off.
InitActors ==
    /\ bell = FALSE
    /\ bell_on = FALSE
    /\ bell_by = 0
    /\ bell_on_by = 0
    /\ hk_pc = <<>>
    /\ hk_time = <<>>
    /\ hot = FALSE
    /\ ba_pc = <<>>
    /\ ba_calls = <<>>
    /\ run = [r \in Relays |-> TRUE]
    /\ led = [r \in Relays |-> FALSE]
    /\ rl_pc = [r \in Relays |-> <<>>]
    /\ rl_steps = [r \in Relays |-> <<>>]
    /\ rl_url = [r \in Relays |-> <<>>]
    /\ seen = [r \in Relays |-> "none"]
    /\ lc_run = TRUE
    /\ running = FALSE
    /\ wlan_ok = FALSE
    /\ offline_counter = 0
    /\ lc_pc = <<>>
    /\ probes = 0
    /\ last_probe = "none"
    /\ failed_run = 0
    /\ reboots = 0
    /\ ctl = "idle"

\* A config.json as the program writes it: the default snapshot with the
\* given values for some keys.
DocWith(over) ==
    JsonFile([k \in Keys |-> IF k \in DOMAIN over THEN over[k]
                             ELSE Config(DefaultFields)[k]])

UrlChoices == {None, Str("http://a")}

\* First run: no config.json.
Init ==
    /\ InitActors
    /\ button = [r \in Relays |-> FALSE]
    /\ InitConfig(NoFile)

\* The configuration.
SpecConfig == Init /\ [][ConfigNext]_vars

\* The configuration over restarts of the program: update() calls that
\* return True, and restarts.
SuccessfulUpdate ==
    \E key \in InputKeys, value \in InputValues, s \in SaveOutcomes :
        Update(key, value, s) /\ ret'.result
RestartNext == SuccessfulUpdate \/ \E s \in SaveOutcomes : Restart(s)
SpecRestart == Init /\ [][RestartNext]_vars

\* The bell.
SpecBell == Init /\ [][BellNext]_vars

\* The virtual relais, with any on and off URL configured.
InitVirtual ==
    /\ InitActors
    /\ button = [r \in Relays |-> FALSE]
    /\ \E a, b \in UrlChoices :
         InitConfig(DocWith([ba_on_url |-> a, ba_off_url |-> b]))

SpecVirtual == InitVirtual /\ [][VirtualNext]_vars

\* The relais inputs, with any on and off URL configured.
InitRelais ==
    /\ InitActors
    /\ button = [r \in Relays |-> FALSE]
    /\ \E a, b \in UrlChoices :
         InitConfig(DocWith([r1_on_url |-> a, r1_off_url |-> b,
                             r2_on_url |-> a, r2_off_url |-> b]))

\* The calls and steps that concern relais r: the Dooropener's start and
\* stop, the relais' own enable and disable, its input, and the steps of
\* its handler threads.
RelaisNext(r) ==
    \/ Start
    \/ Stop
    \/ StopRest
    \/ Enable(r)
    \/ Disable(r)
    \/ Press(r)
    \/ Release(r)
    \/ \E t \in DOMAIN rl_pc[r] : HandlerStep(r, t)

\* Relais 1 at work.  Relais 2 is the same class constructed with other
\* pins, name and on_time; SpecRelais2 is the same specification for it.
SpecRelais == InitRelais /\ [][RelaisNext("relais1")]_vars
SpecRelais2 == InitRelais /\ [][RelaisNext("relais2")]_vars

\* Relais 1 with its threads scheduled: a started handler thread that can
\* take a step takes one (wait_for_press, sleep and requests.get return),
\* and a stop() that was begun is carried through.
SpecRelaisFair ==
    /\ SpecRelais
    /\ \A t \in 1..MaxThreads :
         WF_vars(t \in DOMAIN rl_pc["relais1"] /\ HandlerStep("relais1", t))
    /\ WF_vars(StopRest)

\* The life check.
LifeNext ==
    \/ Start
    \/ Stop
    \/ StopRest
    \/ LifeEnable
    \/ LifeDisable
    \/ LifeDisableLed
    \/ \E t \in DOMAIN lc_pc : LifeCheckStep(t)

SpecLife == Init /\ [][LifeNext]_vars

\* The first three probes of the life check, while update() sets and removes
\* its URL.
UrlUpdate ==
    \E value \in {None, Str(""), Str("http://a")} :
        Update("online_url", value, "ok")
LifeUrlNext ==
    \/ LifeEnable
    \/ \E t \in DOMAIN lc_pc : LifeCheckStep(t) /\ probes' <= 3
    \/ UrlUpdate
SpecLifeUrl == Init /\ [][LifeUrlNext]_vars

\* Loops started after the stop: stop() and disable() at any time, and
\* start() and enable() once the flag of the object is False, with the
\* input of relais 1 and the threads that were started.
AfterStopNext ==
    \/ Stop
    \/ StopRest
    \/ Disable("relais1")
    \/ LifeDisable
    \/ LifeDisableLed
    \/ (~lc_run /\ \A r \in Relays : ~run[r]) /\ Start
    \/ ~run["relais1"] /\ Enable("relais1")
    \/ ~lc_run /\ LifeEnable
    \/ Press("relais1")
    \/ Release("relais1")
    \/ \E t \in DOMAIN rl_pc["relais1"] : HandlerStep("relais1", t)
    \/ \E t \in DOMAIN lc_pc : LifeCheckStep(t)
SpecAfterStop == Init /\ [][AfterStopNext]_vars

\* One handler thread of relais 1 and one _action thread of the virtual
\* relais, side by side.
InitTriggers ==
    /\ InitActors
    /\ button = [r \in Relays |-> FALSE]
    /\ \E a, b \in UrlChoices :
         InitConfig(DocWith([r1_on_url |-> a, r1_off_url |-> b,
                             ba_on_url |-> a, ba_off_url |-> b]))

TriggersNext ==
    \/ RelaisNext("relais1") /\ \A r \in Relays : Len(rl_pc'[r]) <= 1
    \/ VirtualNext /\ Len(ba_pc') <= 1

SpecTriggers == InitTriggers /\ [][TriggersNext]_vars

\* The two kinds of relais as in SpecTriggers, with update() of their off
\* URL while the sequence sleeps: "http://b" is no URL of the initial
\* configuration.
InCoolDown(x) ==
    IF x = "bellAction"
      THEN \E t \in DOMAIN ba_pc : ba_pc[t] = "sleep"
      ELSE \E t \in DOMAIN rl_pc[x] : rl_pc[x][t] = "sleep"

OffUrlUpdate ==
    \/ \E value \in {None, Str("http://b")} :
         InCoolDown("relais1") /\ Update("r1_off_url", value, "ok")
    \/ \E value \in {None, Str("http://b")} :
         InCoolDown("bellAction") /\ Update("ba_off_url", value, "ok")

OffUrlNext == TriggersNext \/ OffUrlUpdate
SpecOffUrl == InitTriggers /\ [][OffUrlNext]_vars

\* ------------------------------------------------------------------- claims

\* An _action thread between the start of its sequence (self.hot = True
\* done) and the end of its off call.
MidSequence(t) == ba_pc[t] \in {"on_call", "sleep", "clear_hot", "off_call"}

\* C1: of two trigger() calls issued back to back on an idle virtual relais
\* (the second before the thread spawned by the first has taken a step) only
\* the first starts an action sequence: there are never two spawned _action
\* threads that both have yet to take their first step, and so never two on
\* calls from one such burst.
C1_OneSequencePerBurst ==
    Cardinality({t \in DOMAIN ba_pc : ba_pc[t] = "set_hot"}) <= 1

\* C2: action sequences of the virtual relais never interleave: hot is true
\* from the start of a sequence until its off call has completed, and no two
\* sequences are between their start and the end of their off call at once.
C2_NoInterleaving ==
    /\ \A t \in DOMAIN ba_pc : MidSequence(t) => hot
    /\ \A t1, t2 \in DOMAIN ba_pc :
         t1 # t2 => ~(MidSequence(t1) /\ MidSequence(t2))

\* Whether the steps in log occur in the order given by order.
Rank(order, step) == CHOOSE i \in DOMAIN order : order[i] = step
InOrder(log, order) ==
    \A i, j \in DOMAIN log : i < j => Rank(order, log[i]) < Rank(order, log[j])

C4_AtMostOneSequence ==
    \A r \in Relays :
        Cardinality({t \in DOMAIN rl_pc[r] : rl_pc[r][t] \in SequenceSteps}) <= 1

\* C5: every failed probe (non-200 status or transport error) adds exactly 1
\* to the offline counter, every successful probe leaves it 0, and so a
\* reboot is only issued by the sixth failed probe in a row.
C5_CounterCountsFailedRun ==
    [][probes' # probes =>
         /\ last_probe' \in {"fail", "raise"} => offline_counter' = offline_counter + 1
         /\ last_probe' = "ok" => offline_counter' = 0
         /\ reboots' # reboots => failed_run' >= 6]_vars

\* C6: from a fresh life check with a probe URL, no reboot is issued while
\* the first five probes fail one after the other, and one is issued when
\* the sixth fails too.
C6_RebootAtSixthFailure ==
    (Truthy(online_url) /\ failed_run = probes) =>
        /\ probes <= 5 => reboots = 0
        /\ probes = 6 => reboots = 1

\* C7: a failed on or off call (non-200 status or transport error) never
\* ends an action sequence of a relais or of the virtual relais early: no
\* handler thread and no _action thread is ended by a call, so the remaining
\* steps are performed and the poll loop keeps running.
C7_CallFailureNeverAborts ==
    /\ \A r \in Relays : \A t \in DOMAIN rl_pc[r] : rl_pc[r][t] # "crashed"
    /\ \A t \in DOMAIN ba_pc : ba_pc[t] # "crashed"

\* C8: update() with a key that is none of the twelve config keys returns
\* False for every value, raises nothing, changes no attribute and does not
\* write config.json.
C8_UnknownKeyRejected ==
    [][(ret'.n # ret.n /\ ret'.key \notin Keys) =>
         /\ ret'.result = FALSE
         /\ ~ret'.raised
         /\ Fields' = Fields
         /\ config_file' = config_file]_vars

\* C8, the case: an update() with an unknown key, made when an earlier
\* update() had written config.json.
C8_Witness ==
    ret.n > 1 /\ ret.key \notin Keys /\ config_file.kind = "json"

\* Values float() does not accept.
NotNumbers == {None, Str(""), Str("http://a")}

\* C9: update() on a _time key with a value that is no number (None
\* included) returns False, raises nothing, leaves the attribute of that key
\* as it was and does not write config.json.
C9_BadNumberRejected ==
    [][(ret'.n # ret.n /\ ret'.key \in TimeKeys /\ ret'.value \in NotNumbers) =>
         /\ ret'.result = FALSE
         /\ ~ret'.raised
         /\ Config(Fields')[ret'.key] = Config(Fields)[ret'.key]
         /\ config_file' = config_file]_vars

\* C9, the case: such an update() on a _time key that an earlier update()
\* had set and saved.
C9_Witness ==
    /\ ret.n > 1
    /\ ret.key \in TimeKeys
    /\ ret.value \in NotNumbers
    /\ config_file.kind = "json"
    /\ Config(Fields)[ret.key] # Config(DefaultFields)[ret.key]

\* C10: update() returns True only when config.json holds the current
\* config() snapshot.
C10_SuccessMeansPersisted ==
    (ret.n > 0 /\ ret.result) => config_file = JsonFile(Config(Fields))

\* The value config() is to show for a key after update(key, value): the
\* number for a _time key, the string (or None) itself for a URL key.
Normalized(key, value) ==
    IF key \in TimeKeys
      THEN CASE value = Str("3") -> Num(30)
             [] value = Str("0.2") -> Num(2)
             [] OTHER -> ParseError
      ELSE value

\* C11: after a successful update(key, value) on a known key, config()
\* shows for that key the value after type normalization, whatever the
\* other keys hold.
C11_UpdateThenConfig ==
    [][(ret'.n # ret.n /\ ret'.key \in Keys /\ ret'.result) =>
         Config(Fields')[ret'.key] = Normalized(ret'.key, ret'.value)]_vars

\* C11, the case: a successful update() of a _time key from the string "3",
\* made after an update() of another key.
C11_Witness ==
    /\ ret.n > 1
    /\ ret.result
    /\ ret.key = "r2_time"
    /\ ret.value = Str("3")
    /\ Config(Fields)["r1_time"] = Num(2)

\* a == b of Python for the values of the model: an int and a float are
\* equal when their values are.
IsNumber(v) == v[1] \in {"int", "num"}
PyEq(a, b) == IF IsNumber(a) /\ IsNumber(b) THEN a[2] = b[2] ELSE a = b

\* C12: a new Dooropener constructed from config.json after any sequence of
\* successful update() calls shows in config() the snapshot the old one
\* showed, for every key, and has started no thread when its load is done.
C12_RestartKeepsSnapshot ==
    [][boots' # boots =>
         /\ \A k \in Keys : PyEq(Config(Fields')[k], Config(Fields)[k])
         /\ ba_pc' = <<>> /\ lc_pc' = <<>>
         /\ \A r \in Relays : rl_pc'[r] = <<>>]_vars

SequenceGoesOn(r, t) ==
    (~run[r] /\ rl_pc[r][t] \in SequenceSteps /\ rl_pc'[r][t] # rl_pc[r][t]) =>
        /\ rl_pc'[r][t] = AfterStep(rl_pc[r][t])
        /\ (rl_pc[r][t] = "off_call" /\ Truthy(off_url[r])) =>
               rl_steps'[r][t] = Append(rl_steps[r][t], "off_call")
        /\ rl_pc[r][t] = "led_off" => ~led'[r]

\* A thread that left the loop stays out of it.
StoppedStays(r, t) ==
    rl_pc[r][t] = "stopped" => rl_pc'[r][t] = "stopped"

\* C14: disable() only asks the handler to stop.  A sequence in progress is
\* carried on to its off call and self.led.off(); once self.run is False
\* every handler thread of the relais eventually ends; and a thread that
\* saw the flag and ended starts no sequence for a later activation.
C14_DisableIsAdvisory ==
    /\ [][\A t \in DOMAIN rl_pc["relais1"] :
            SequenceGoesOn("relais1", t) /\ StoppedStays("relais1", t)]_vars
    /\ ~run["relais1"] ~>
           (\A t \in DOMAIN rl_pc["relais1"] :
               rl_pc["relais1"][t] \in {"stopped", "crashed"})

\* C15: an activation of the input that began and ended while a handler
\* thread was in _button_pressed starts no sequence: no thread of the relais
\* enters _button_pressed before the input goes active anew.
C15_MissedNotQueued ==
    [][\A r \in Relays : \A t \in DOMAIN rl_pc[r] :
         seen[r] = "ended" =>
             ~(rl_pc[r][t] \notin SequenceSteps /\ rl_pc'[r][t] \in SequenceSteps)]_vars

\* C15, the case: the input went active and inactive again within the
\* sequence of a thread, the sequence is over and the thread waits for the
\* input again.
C15_Witness ==
    \E t \in DOMAIN rl_pc["relais1"] :
        /\ seen["relais1"] = "ended"
        /\ rl_pc["relais1"][t] = "wait"
        /\ rl_steps["relais1"][t] # <<>>
        /\ rl_steps["relais1"][t][Len(rl_steps["relais1"][t])] = "led_off"
        /\ \A u \in DOMAIN rl_pc["relais1"] :
               rl_pc["relais1"][u] \notin SequenceSteps

\* C16: while no URL is set (online_url None or ''), no step of the life
\* check makes a probe or writes offline_counter, and the step that finds no
\* URL switches the wlan_ok LED off.
C16_NoUrlNoProbe ==
    [][~Truthy(online_url) =>
         /\ probes' = probes
         /\ offline_counter' = offline_counter
         /\ \A t \in DOMAIN lc_pc :
              (lc_pc[t] = "check" /\ lc_pc'[t] # "check") =>
                  (~wlan_ok' /\ lc_pc'[t] = "sleep")]_vars

\* C16, the case: the URL was removed after a failed probe had counted, and
\* a thread has just gone through the check without it.
C16_Witness ==
    /\ ~Truthy(online_url)
    /\ offline_counter > 0
    /\ ~wlan_ok
    /\ \E t \in DOMAIN lc_pc : lc_pc[t] = "sleep"
    /\ last_probe = "fail"

\* C17: self.hot does not stay True for good: it is never True with every
\* _action thread ended, when nothing is left that would clear it and
\* trigger() ignores every further call.
C17_HotIsCleared ==
    ~(hot /\ ba_pc # <<>>
          /\ \A t \in DOMAIN ba_pc : ba_pc[t] \in {"done", "crashed"})

\* C18: once disable() has returned and every _life_check thread has ended,
\* the running LED is off.
C18_RunningOffAfterStop ==
    (/\ ~lc_run
     /\ ctl = "idle"
     /\ lc_pc # <<>>
     /\ \A t \in DOMAIN lc_pc : lc_pc[t] \in {"stopped", "crashed"}) =>
        ~running

\* With the flag False a thread that is at the while test, has left the
\* loop, or is started in this step, is afterwards at the while test or out
\* of the loop: it never comes to wait for the input or to make a probe.
OnlyExits(before, after) ==
    \A t \in DOMAIN after :
        (t \notin DOMAIN before \/ before[t] \in {"loop", "stopped"}) =>
            after[t] \in {"loop", "stopped"}

\* C19: self.run of a Relais or of the LifeCheck, once False, stays False,
\* and a loop started after that by enable() or start() leaves at its first
\* while test: it handles no activation of the input and makes no probe.
C19_StopFlagStays ==
    [][/\ \A r \in Relays :
            ~run[r] => (~run'[r] /\ OnlyExits(rl_pc[r], rl_pc'[r]))
       /\ ~lc_run => (~lc_run' /\ OnlyExits(lc_pc, lc_pc'))]_vars

\* C19, the case: after the stop a handler thread and a life check thread
\* were started and have ended, with the input active and no probe made.
C19_Witness ==
    /\ ~run["relais1"] /\ ~lc_run
    /\ \E t \in DOMAIN rl_pc["relais1"] : rl_pc["relais1"][t] = "stopped"
    /\ \E t \in DOMAIN lc_pc : lc_pc[t] = "stopped"
    /\ button["relais1"]
    /\ probes = 0

\* C20: the off call of a sequence is made with the off URL as it is when
\* the sleep is over, so with the value an update() during the sleep gave
\* it: the call goes to that URL, and is left out when that value is None
\* or ''.
C20_OffUrlReadAfterSleep ==
    [][/\ \A r \in Relays : \A t \in DOMAIN rl_pc[r] :
            (rl_pc[r][t] = "off_call" /\ rl_pc'[r][t] # "off_call") =>
                IF Truthy(off_url[r])
                  THEN /\ rl_url'[r][t] = off_url[r]
                       /\ rl_steps'[r][t] = Append(rl_steps[r][t], "off_call")
                  ELSE /\ rl_url'[r][t] = rl_url[r][t]
                       /\ rl_steps'[r][t] = rl_steps[r][t]
       /\ \A t \in DOMAIN ba_pc :
            (ba_pc[t] = "off_call" /\ ba_pc'[t] # "off_call") =>
                IF Truthy(off_url["bellAction"])
                  THEN /\ Len(ba_calls') = Len(ba_calls) + 1
                       /\ ba_calls'[Len(ba_calls')].kind = "off"
                       /\ ba_calls'[Len(ba_calls')].url = off_url["bellAction"]
                  ELSE ba_calls' = ba_calls]_vars

\* C20, the case: update() set the off URL of relais 1 and of the virtual
\* relais during their sleep, and the off call of each went to the new URL.
C20_Witness ==
    /\ \E t \in DOMAIN rl_pc["relais1"] :
         /\ rl_pc["relais1"][t] = "led_off"
         /\ rl_url["relais1"][t] = Str("http://b")
    /\ \E i \in DOMAIN ba_calls :
         ba_calls[i].kind = "off" /\ ba_calls[i].url = Str("http://b")

====
